---- MODULE Spec2Model ----
(***************************************************************************)
(* A model of the survey backend: the SurveyManager (cache of Survey       *)
(* objects in front of the configurations collection) and the Survey       *)
(* submission / verification / aggregation handlers, as called by the      *)
(* routes of app/main.py.                                                   *)
(***************************************************************************)
EXTENDS Integers, Sequences, FiniteSets, TLC

VARIABLES
    configurations,   \* database['configurations']: a set of documents
    collections,      \* database[<name>]: the per-survey collections
    cache,            \* SurveyManager.cache: survey_id -> Survey object
    now,              \* the value now() returns
    debug,            \* Python's __debug__: assert statements are executed
    last,             \* the last request handled and how it ended
    calls,            \* the requests in progress: where each coroutine stands
    verified_entries_collection,  \* flask_backend: the verified records
    response          \* flask_backend: what the last results request returned

vars == <<configurations, collections, cache, now, debug, last, calls,
          verified_entries_collection, response>>

----------------------------------------------------------------------------
\* Bounds of the model

MaxTime == 2
MaxDocuments == 2
MaxCalls == 2
MaxRecords == 2

----------------------------------------------------------------------------
\* Values

\* A nullable timestamp: None is the empty tuple, a timestamp t is <<t>>.
None == <<>>

Usernames == {"fastsurvey"}
SurveyNames == {"hello-world", "vote"}

\* what vtoken() can return
Tokens == 1..MaxDocuments

\* the _id the store gives a document inserted without one (an ObjectId):
\* ObjectId(i) is the i-th the store hands out in a collection
ObjectId(i) == -i

\* str(i) for the field positions in use
str(i) ==
    CASE i = 1 -> "1"
      [] i = 2 -> "2"
      [] i = 3 -> "3"
      [] OTHER -> "4"

\* combine(username, survey_name): the survey id
combine(username, survey_name) == <<username, survey_name>>

SurveyIds == {combine(u, n) : u \in Usernames, n \in SurveyNames}

\* the names of the per-survey collections the code addresses
CollectionNames ==
    {<<id, suffix>> : id \in SurveyIds,
        suffix \in {"submissions", "submissions.verified", "verified-submissions"}}

\* a configuration as the frontend sends it (without username)
Configuration(survey_name, start, end, authentication, fields) ==
    [survey_name |-> survey_name, start |-> start, end |-> end,
     authentication |-> authentication, fields |-> fields]

\* the configurations the requests carry: per survey name an email survey,
\* an open survey, an invitation survey, a survey without time bounds, and
\* two configurations the validator rejects
ConfigurationInputs ==
    UNION {
        { Configuration(n, <<1>>, <<2>>, "email", <<"email", "text">>),
          Configuration(n, <<1>>, <<3>>, "open", <<"text">>),
          Configuration(n, <<1>>, <<2>>, "invitation", <<"text">>),
          Configuration(n, None, None, "email", <<"text", "email">>),
          Configuration(n, <<3>>, <<1>>, "open", <<"text">>),
          Configuration(n, <<1>>, <<3>>, "email", <<"text">>) }
        : n \in SurveyNames }

\* the submission payloads the requests carry
SubmissionInputs ==
    { ("1" :> "a@x.io") @@ ("2" :> "yes"),
      ("1" :> "a@x.io") @@ ("2" :> "no"),
      ("1" :> "b@x.io") @@ ("2" :> "yes"),
      ("1" :> "yes"),
      ("1" :> "yes") @@ ("2" :> "a@x.io"),
      <<>> }

EmailAddresses == {"a@x.io", "b@x.io"}

\* the status codes the mailer can answer with
StatusCodes == {200, 500}

----------------------------------------------------------------------------
\* Validation

FieldTypes == {"email", "text"}

EmailFields(configuration) ==
    {i \in DOMAIN configuration.fields : configuration.fields[i] = "email"}

\* ConfigurationValidator.validate
ValidateConfiguration(configuration) ==
    /\ \A i \in DOMAIN configuration.fields : configuration.fields[i] \in FieldTypes
    /\ configuration.authentication \in {"open", "email", "invitation"}
    /\ (configuration.start # None /\ configuration.end # None)
            => configuration.start[1] <= configuration.end[1]
    /\ configuration.authentication = "email"
            => Cardinality(EmailFields(configuration)) = 1

\* the constraint one field puts on its value
ValidValue(type, value) ==
    IF type = "email" THEN value \in EmailAddresses ELSE TRUE

\* SubmissionValidator.validate, for the validator compiled from configuration
ValidateSubmission(configuration, submission) ==
    /\ DOMAIN submission = {str(i) : i \in DOMAIN configuration.fields}
    /\ \A i \in DOMAIN configuration.fields :
            ValidValue(configuration.fields[i], submission[str(i)])

----------------------------------------------------------------------------
\* The Survey object

\* Survey._get_email_field_index: the 0-based index of the first email
\* field, None if there is none
_get_email_field_index(configuration) ==
    IF EmailFields(configuration) = {}
    THEN None
    ELSE <<(CHOOSE i \in EmailFields(configuration) :
                \A j \in EmailFields(configuration) : i <= j) - 1>>

\* Survey.__init__: the object built from a stored configuration
Survey(configuration) ==
    [configuration |-> configuration,
     ei |-> _get_email_field_index(configuration),
     submissions |->
        <<combine(configuration.username, configuration.survey_name), "submissions">>,
     verified_submissions |->
        <<combine(configuration.username, configuration.survey_name), "submissions.verified">>,
     results |-> None]

----------------------------------------------------------------------------
\* The document store

\* find_one on configurations with filter {username, survey_name}
FindConfiguration(username, survey_name) ==
    {c \in configurations : c.username = username /\ c.survey_name = survey_name}

\* (mutant) the collection has no unique index
DuplicateKeyNoIndex(documents, configuration) ==
    FALSE

\* the unique index username_survey_name_index refuses this document
DuplicateKey(documents, configuration) ==
    \E c \in documents :
        /\ c.username = configuration.username
        /\ c.survey_name = configuration.survey_name

\* configuration['username'] = username
WithUsername(configuration, username) ==
    [survey_name |-> configuration.survey_name, start |-> configuration.start,
     end |-> configuration.end, authentication |-> configuration.authentication,
     fields |-> configuration.fields, username |-> username]

\* (mutant) the route's survey name is not compared with the configuration's
NameMismatchIgnored(survey_name, configuration) ==
    FALSE

\* SurveyManager._create: the route's survey name differs from the
\* configuration's
NameMismatch(survey_name, configuration) ==
    survey_name # configuration.survey_name

\* SurveyManager._update_cache
_update_cache(c, configuration) ==
    LET survey_id == combine(configuration.username, configuration.survey_name)
    IN  [id \in DOMAIN c \cup {survey_id} |->
            IF id = survey_id THEN Survey(configuration) ELSE c[id]]

\* del self.cache[survey_id]
Evict(c, survey_id) ==
    [id \in DOMAIN c \ {survey_id} |-> c[id]]

\* the cache after SurveyManager._fetch, when the survey exists
CacheAfterFetch(username, survey_name) ==
    IF combine(username, survey_name) \in DOMAIN cache
    THEN cache
    ELSE _update_cache(cache, CHOOSE c \in FindConfiguration(username, survey_name) : TRUE)

\* SurveyManager._fetch raises 404
FetchFails(username, survey_name) ==
    /\ combine(username, survey_name) \notin DOMAIN cache
    /\ FindConfiguration(username, survey_name) = {}

\* the assert pair of _update: replace_one leaves the replacement without
\* an '_id', so the second assert fails whenever asserts are executed
AssertionFails ==
    debug

\* what the caller of a request sees: the request and how it ended
Response(op, survey_id, outcome) ==
    [op |-> op, id |-> survey_id, outcome |-> outcome]

\* the coroutines that can be in progress at once
Processes == 1..MaxCalls

\* a coroutine slot with no request in progress
Idle == [op |-> "idle"]

----------------------------------------------------------------------------
\* The state at start: an empty database and cache; asserts are executed
\* (the interpreter's default)
Init ==
    /\ configurations = {}
    /\ collections = [name \in CollectionNames |-> {}]
    /\ cache = <<>>
    /\ now = 0
    /\ debug = TRUE
    /\ last = Response("start", <<>>, "ok")
    /\ calls = [p \in Processes |-> Idle]
    /\ verified_entries_collection = <<>>
    /\ response = None

\* the same, the interpreter run with or without -O
InitManager ==
    /\ configurations = {}
    /\ collections = [name \in CollectionNames |-> {}]
    /\ cache = <<>>
    /\ now = 0
    /\ debug \in BOOLEAN
    /\ last = Response("start", <<>>, "ok")
    /\ calls = [p \in Processes |-> Idle]
    /\ verified_entries_collection = <<>>
    /\ response = None

\* the same, the interpreter run with -O: assert statements are skipped
InitOptimized ==
    /\ configurations = {}
    /\ collections = [name \in CollectionNames |-> {}]
    /\ cache = <<>>
    /\ now = 0
    /\ debug = FALSE
    /\ last = Response("start", <<>>, "ok")
    /\ calls = [p \in Processes |-> Idle]
    /\ verified_entries_collection = <<>>
    /\ response = None

\* time passes
Tick ==
    /\ now < MaxTime
    /\ now' = now + 1
    /\ last' = Response("tick", <<>>, "ok")
    /\ UNCHANGED <<configurations, collections, cache, debug>>
    /\ UNCHANGED <<calls, verified_entries_collection, response>>

\* GET /users/{username}/surveys/{survey_name}: SurveyManager.fetch
fetch(username, survey_name) ==
    LET survey_id == combine(username, survey_name) IN
    /\ IF FetchFails(username, survey_name)
       THEN /\ last' = Response("fetch", survey_id, "NotFound")
            /\ UNCHANGED cache
       ELSE /\ cache' = CacheAfterFetch(username, survey_name)
            /\ last' = Response("fetch", survey_id, "ok")
    /\ UNCHANGED <<configurations, collections, now, debug>>
    /\ UNCHANGED <<calls, verified_entries_collection, response>>

\* POST /users/{username}/surveys/{survey_name}: SurveyManager._create
_create(username, survey_name, configuration) ==
    LET survey_id == combine(username, survey_name)
        document == WithUsername(configuration, username)
    IN
    /\ IF NameMismatch(survey_name, configuration)
       THEN /\ last' = Response("create", survey_id, "InvalidConfiguration")
            /\ UNCHANGED <<configurations, cache>>
       ELSE IF ~ValidateConfiguration(configuration)
       THEN /\ last' = Response("create", survey_id, "InvalidConfiguration")
            /\ UNCHANGED <<configurations, cache>>
       ELSE IF DuplicateKey(configurations, document)
       THEN /\ last' = Response("create", survey_id, "AlreadyExists")
            /\ UNCHANGED <<configurations, cache>>
       ELSE /\ configurations' = configurations \cup {document}
            /\ cache' = _update_cache(cache, document)
            /\ last' = Response("create", survey_id, "ok")
    /\ UNCHANGED <<collections, now, debug>>
    /\ UNCHANGED <<calls, verified_entries_collection, response>>

\* PUT /users/{username}/surveys/{survey_name}: SurveyManager._update
_update(username, survey_name, configuration) ==
    LET survey_id == combine(username, survey_name)
        document == WithUsername(configuration, username)
        matched == FindConfiguration(username, survey_name)
    IN
    /\ IF ~ValidateConfiguration(configuration)
       THEN /\ last' = Response("update", survey_id, "InvalidConfiguration")
            /\ UNCHANGED <<configurations, cache>>
       ELSE IF matched = {}
       THEN /\ last' = Response("update", survey_id, "NotFound")
            /\ UNCHANGED <<configurations, cache>>
       ELSE IF DuplicateKey(configurations \ matched, document)
       THEN /\ last' = Response("update", survey_id, "DuplicateKeyError")
            /\ UNCHANGED <<configurations, cache>>
       ELSE /\ configurations' = (configurations \ matched) \cup {document}
            /\ IF AssertionFails
               THEN /\ last' = Response("update", survey_id, "AssertionError")
                    /\ UNCHANGED cache
               ELSE /\ cache' = _update_cache(cache, document)
                    /\ last' = Response("update", survey_id, "ok")
    /\ UNCHANGED <<collections, now, debug>>
    /\ UNCHANGED <<calls, verified_entries_collection, response>>

\* collection.drop()
Drop(colls, name) ==
    [colls EXCEPT ![name] = {}]

\* DELETE /users/{username}/surveys/{survey_name}/submissions:
\* SurveyManager._reset. It drops surveys.{id}.submissions and
\* surveys.{id}.verified-submissions; the Survey writes its verified
\* submissions to surveys.{id}.submissions.verified. (The results collection,
\* which nothing here writes, is left out.)
_reset(username, survey_name) ==
    LET survey_id == combine(username, survey_name) IN
    /\ collections' = Drop(Drop(collections, <<survey_id, "submissions">>),
                           <<survey_id, "verified-submissions">>)
    /\ last' = Response("reset", survey_id, "ok")
    /\ UNCHANGED <<configurations, cache, now, debug>>
    /\ UNCHANGED <<calls, verified_entries_collection, response>>

\* DELETE /users/{username}/surveys/{survey_name}: SurveyManager._delete
_delete(username, survey_name) ==
    LET survey_id == combine(username, survey_name) IN
    /\ configurations' = configurations \ FindConfiguration(username, survey_name)
    /\ cache' = IF survey_id \in DOMAIN cache THEN Evict(cache, survey_id) ELSE cache
    /\ collections' = Drop(Drop(collections, <<survey_id, "submissions">>),
                           <<survey_id, "verified-submissions">>)
    /\ last' = Response("delete", survey_id, "ok")
    /\ UNCHANGED <<now, debug>>
    /\ UNCHANGED <<calls, verified_entries_collection, response>>

\* the documents of a collection with the given _id
FindById(documents, id) ==
    {d \in documents : d._id = id}

\* (mutant) the verified record is inserted beside the one it should replace
UpsertKeepsOld(documents, replacement) ==
    documents \cup {replacement}

\* find_one_and_replace(filter={'_id': ...}, replacement, upsert=True)
Upsert(documents, replacement) ==
    (documents \ FindById(documents, replacement._id)) \cup {replacement}

\* (mutant) the survey is still open at its end
TimeGateOpenAtEnd(survey) ==
    IF survey.configuration.start = None THEN "TypeError"
    ELSE IF now < survey.configuration.start[1] THEN "NotOpenYet"
    ELSE IF survey.configuration.end = None THEN "TypeError"
    ELSE IF now > survey.configuration.end[1] THEN "Closed"
    ELSE "open"

\* the comparisons of now() with Survey.start and Survey.end made by submit
\* and verify; comparing a timestamp with None raises TypeError
TimeGate(survey) ==
    IF survey.configuration.start = None THEN "TypeError"
    ELSE IF now < survey.configuration.start[1] THEN "NotOpenYet"
    ELSE IF survey.configuration.end = None THEN "TypeError"
    ELSE IF now >= survey.configuration.end[1] THEN "Closed"
    ELSE "open"

\* (mutant) the record is inserted without the token as its _id
PendingRecordWithoutToken(id, submission) ==
    [_id |-> ObjectId(1), submission_time |-> now, data |-> submission]

\* the pending record submit builds
PendingRecord(id, submission) ==
    [_id |-> id, submission_time |-> now, data |-> submission]

\* the record verify writes: the pending record with the verification
\* time, re-keyed by the value of the email field
VerifiedRecord(survey, submission) ==
    [_id |-> submission.data[str(survey.ei[1] + 1)],
     submission_time |-> submission.submission_time,
     data |-> submission.data,
     verification_time |-> now]

\* the Survey object the routes submit, verify and aggregate get from
\* SurveyManager._fetch (when it does not raise)
FetchedSurvey(username, survey_name) ==
    CacheAfterFetch(username, survey_name)[combine(username, survey_name)]

\* (mutant) a payload the validator rejects raises nothing
SubmitOutcomeUnvalidated(username, survey_name, submission, status) ==
    LET survey == FetchedSurvey(username, survey_name) IN
    IF FetchFails(username, survey_name) THEN "NotFound"
    ELSE IF TimeGate(survey) # "open" THEN TimeGate(survey)
    ELSE IF ~ValidateSubmission(survey.configuration, submission) THEN "ok"
    ELSE IF survey.configuration.authentication = "open" THEN "ok"
    ELSE IF survey.configuration.authentication = "email"
    THEN IF survey.ei = None THEN "TypeError"
         ELSE IF status # 200 THEN "DeliveryFailure"
         ELSE "ok"
    ELSE "NotImplemented"

\* how the route submit ends: SurveyManager._fetch, then Survey.submit
SubmitOutcome(username, survey_name, submission, status) ==
    LET survey == FetchedSurvey(username, survey_name) IN
    IF FetchFails(username, survey_name) THEN "NotFound"
    ELSE IF TimeGate(survey) # "open" THEN TimeGate(survey)
    ELSE IF ~ValidateSubmission(survey.configuration, submission) THEN "InvalidSubmission"
    ELSE IF survey.configuration.authentication = "open" THEN "ok"
    ELSE IF survey.configuration.authentication = "email"
    THEN IF survey.ei = None THEN "TypeError"
         ELSE IF status # 200 THEN "DeliveryFailure"
         ELSE "ok"
    ELSE "NotImplemented"

\* (mutant) the records are built and inserted before the validator is
\* asked
SubmitInsertsUnvalidated(username, survey_name, submission) ==
    LET survey == FetchedSurvey(username, survey_name) IN
    /\ ~FetchFails(username, survey_name)
    /\ TimeGate(survey) = "open"
    /\ survey.configuration.authentication \in {"open", "email"}

\* Survey.submit reaches an insert_one: the survey is open, the submission
\* valid and the authentication open or email
SubmitInserts(username, survey_name, submission) ==
    LET survey == FetchedSurvey(username, survey_name) IN
    /\ ~FetchFails(username, survey_name)
    /\ TimeGate(survey) = "open"
    /\ ValidateSubmission(survey.configuration, submission)
    /\ survey.configuration.authentication \in {"open", "email"}

\* Survey.submit draws a token and calls the mailer: it reaches the insert
\* of an email survey
SubmitMails(username, survey_name, submission) ==
    /\ SubmitInserts(username, survey_name, submission)
    /\ FetchedSurvey(username, survey_name).configuration.authentication = "email"

\* POST .../submissions: the route submit; token is the token the vtoken
\* loop ends with (one no pending record has), status the mailer's answer
submit(username, survey_name, submission, token, status) ==
    LET survey_id == combine(username, survey_name)
        survey == FetchedSurvey(username, survey_name)
        pending == collections[survey.submissions]
        outcome == SubmitOutcome(username, survey_name, submission, status)
    IN
    /\ last' = Response("submit", survey_id, outcome)
    /\ cache' = IF outcome = "NotFound" THEN cache
                ELSE CacheAfterFetch(username, survey_name)
    /\ IF ~SubmitInserts(username, survey_name, submission)
       THEN UNCHANGED collections
       ELSE IF survey.configuration.authentication = "open"
       THEN /\ Cardinality(pending) < MaxDocuments
            /\ collections' = [collections EXCEPT ![survey.submissions] =
                    pending \cup {PendingRecord(ObjectId(Cardinality(pending) + 1), submission)}]
       ELSE /\ Cardinality(pending) < MaxDocuments
            /\ FindById(pending, token) = {}
            /\ collections' = [collections EXCEPT ![survey.submissions] =
                    pending \cup {PendingRecord(token, submission)}]
    /\ UNCHANGED <<configurations, now, debug>>
    /\ UNCHANGED <<calls, verified_entries_collection, response>>

\* a submit request: a token is drawn and the mailer answers only when
\* Survey.submit gets that far
SubmitRequest(username, survey_name, submission) ==
    IF SubmitMails(username, survey_name, submission)
    THEN \E t \in Tokens, m \in StatusCodes : submit(username, survey_name, submission, t, m)
    ELSE submit(username, survey_name, submission, None, None)

\* (mutant) the token is looked up before the time is checked
VerifyOutcomeLookupFirst(username, survey_name, verification_token) ==
    LET survey == FetchedSurvey(username, survey_name)
        found == FindById(collections[survey.submissions], verification_token)
    IN
    IF FetchFails(username, survey_name) THEN "NotFound"
    ELSE IF survey.configuration.authentication # "email" THEN "WrongMode"
    ELSE IF found = {} THEN "InvalidToken"
    ELSE IF TimeGate(survey) # "open" THEN TimeGate(survey)
    ELSE IF survey.ei = None THEN "TypeError"
    ELSE IF \E d \in found : str(survey.ei[1] + 1) \notin DOMAIN d.data THEN "KeyError"
    ELSE "ok"

\* (mutant) verify does not ask for the authentication mode
VerifyOutcomeAnyMode(username, survey_name, verification_token) ==
    LET survey == FetchedSurvey(username, survey_name)
        found == FindById(collections[survey.submissions], verification_token)
    IN
    IF FetchFails(username, survey_name) THEN "NotFound"
    ELSE IF TimeGate(survey) # "open" THEN TimeGate(survey)
    ELSE IF found = {} THEN "InvalidToken"
    ELSE IF survey.ei = None THEN "TypeError"
    ELSE IF \E d \in found : str(survey.ei[1] + 1) \notin DOMAIN d.data THEN "KeyError"
    ELSE "ok"

\* how the route verify ends: SurveyManager._fetch, then Survey.verify
VerifyOutcome(username, survey_name, verification_token) ==
    LET survey == FetchedSurvey(username, survey_name)
        found == FindById(collections[survey.submissions], verification_token)
    IN
    IF FetchFails(username, survey_name) THEN "NotFound"
    ELSE IF survey.configuration.authentication # "email" THEN "WrongMode"
    ELSE IF TimeGate(survey) # "open" THEN TimeGate(survey)
    ELSE IF found = {} THEN "InvalidToken"
    ELSE IF survey.ei = None THEN "TypeError"
    ELSE IF \E d \in found : str(survey.ei[1] + 1) \notin DOMAIN d.data THEN "KeyError"
    ELSE "ok"

\* GET .../verification/{token}: the route verify
verify(username, survey_name, verification_token) ==
    LET survey_id == combine(username, survey_name)
        survey == FetchedSurvey(username, survey_name)
        found == FindById(collections[survey.submissions], verification_token)
        outcome == VerifyOutcome(username, survey_name, verification_token)
    IN
    /\ last' = Response("verify", survey_id, outcome)
    /\ cache' = IF outcome = "NotFound" THEN cache
                ELSE CacheAfterFetch(username, survey_name)
    /\ IF outcome = "ok"
       THEN collections' = [collections EXCEPT ![survey.verified_submissions] =
                Upsert(@, VerifiedRecord(survey, CHOOSE d \in found : TRUE))]
       ELSE UNCHANGED collections
    /\ UNCHANGED <<configurations, now, debug>>
    /\ UNCHANGED <<calls, verified_entries_collection, response>>

\* Alligator.fetch: the statistics of the verified submissions
AlligatorFetch(survey) ==
    <<Cardinality(collections[survey.verified_submissions])>>

\* (mutant) aggregate answers before the survey has closed
aggregate_before_end(username, survey_name) ==
    LET survey_id == combine(username, survey_name)
        survey == CacheAfterFetch(username, survey_name)[survey_id]
    IN
    /\ IF FetchFails(username, survey_name)
       THEN /\ last' = Response("aggregate", survey_id, "NotFound")
            /\ UNCHANGED cache
       ELSE IF survey.configuration.end = None
       THEN /\ last' = Response("aggregate", survey_id, "TypeError")
            /\ cache' = CacheAfterFetch(username, survey_name)
       ELSE /\ last' = Response("aggregate", survey_id, "ok")
            /\ cache' = [CacheAfterFetch(username, survey_name) EXCEPT ![survey_id].results =
                            IF survey.results # None THEN survey.results
                            ELSE AlligatorFetch(survey)]
    /\ UNCHANGED <<configurations, collections, now, debug>>
    /\ UNCHANGED <<calls, verified_entries_collection, response>>

\* GET .../results: the route aggregate, SurveyManager._fetch then
\* Survey.aggregate
aggregate(username, survey_name) ==
    LET survey_id == combine(username, survey_name)
        survey == CacheAfterFetch(username, survey_name)[survey_id]
    IN
    /\ IF FetchFails(username, survey_name)
       THEN /\ last' = Response("aggregate", survey_id, "NotFound")
            /\ UNCHANGED cache
       ELSE IF survey.configuration.end = None
       THEN /\ last' = Response("aggregate", survey_id, "TypeError")
            /\ cache' = CacheAfterFetch(username, survey_name)
       ELSE IF now < survey.configuration.end[1]
       THEN /\ last' = Response("aggregate", survey_id, "NotYetClosed")
            /\ cache' = CacheAfterFetch(username, survey_name)
       ELSE /\ last' = Response("aggregate", survey_id, "ok")
            /\ cache' = [CacheAfterFetch(username, survey_name) EXCEPT ![survey_id].results =
                            IF survey.results # None THEN survey.results
                            ELSE AlligatorFetch(survey)]
    /\ UNCHANGED <<configurations, collections, now, debug>>
    /\ UNCHANGED <<calls, verified_entries_collection, response>>

----------------------------------------------------------------------------
\* The requests for one survey: its whole life, with submissions

LifecycleNames == {"vote"}

LifecycleConfigurations ==
    {c \in ConfigurationInputs : c.survey_name \in LifecycleNames}

Next ==
    \/ Tick
    \/ \E u \in Usernames, n \in LifecycleNames : fetch(u, n)
    \/ \E u \in Usernames, n \in LifecycleNames, c \in LifecycleConfigurations : _create(u, n, c)
    \/ \E u \in Usernames, n \in LifecycleNames, c \in LifecycleConfigurations : _update(u, n, c)
    \/ \E u \in Usernames, n \in LifecycleNames : _reset(u, n)
    \/ \E u \in Usernames, n \in LifecycleNames : _delete(u, n)
    \/ \E u \in Usernames, n \in LifecycleNames, s \in SubmissionInputs : SubmitRequest(u, n, s)
    \/ \E u \in Usernames, n \in LifecycleNames, t \in Tokens : verify(u, n, t)
    \/ \E u \in Usernames, n \in LifecycleNames : aggregate(u, n)

Spec == Init /\ [][Next]_vars

\* the same requests served by an interpreter run with -O
SpecOptimized == InitOptimized /\ [][Next]_vars

\* The configuration requests for every survey name, without submissions

NextManager ==
    \/ \E u \in Usernames, n \in SurveyNames : fetch(u, n)
    \/ \E u \in Usernames, n \in SurveyNames, c \in ConfigurationInputs : _create(u, n, c)
    \/ \E u \in Usernames, n \in SurveyNames, c \in ConfigurationInputs : _update(u, n, c)
    \/ \E u \in Usernames, n \in SurveyNames : _delete(u, n)

SpecManager == InitManager /\ [][NextManager]_vars

----------------------------------------------------------------------------
\* Overlapping manager calls: every await of a store operation is a point
\* where the coroutine is suspended and others run

\* a coroutine suspended in a manager call: pc names where it stands,
\* configuration holds <<the document>> it writes or has read, None if none
Call(op, pc, username, survey_name, configuration) ==
    [op |-> op, pc |-> pc, username |-> username, survey_name |-> survey_name,
     configuration |-> configuration]

\* coroutine p stands at pc in a call of op
At(p, op, pc) ==
    /\ calls[p].op = op
    /\ calls[p].pc = pc

\* the configurations the overlapping requests carry: two valid ones and
\* one the validator rejects
ConcurrentConfigurations ==
    { Configuration("vote", <<1>>, <<2>>, "email", <<"email", "text">>),
      Configuration("vote", <<1>>, <<3>>, "open", <<"text">>),
      Configuration("vote", <<3>>, <<1>>, "open", <<"text">>) }

\* the server starts on a database that may already hold a survey; the
\* cache starts empty
InitConcurrent ==
    /\ configurations \in
            {{}} \cup {{WithUsername(c, u)} :
                        u \in Usernames,
                        c \in {x \in ConcurrentConfigurations : ValidateConfiguration(x)}}
    /\ collections = [name \in CollectionNames |-> {}]
    /\ cache = <<>>
    /\ now = 0
    /\ debug = FALSE
    /\ last = Response("start", <<>>, "ok")
    /\ calls = [p \in Processes |-> Idle]
    /\ verified_entries_collection = <<>>
    /\ response = None

\* SurveyManager._fetch up to its await: a cached Survey is returned at
\* once, otherwise find_one is awaited
_fetch_begin(p, username, survey_name) ==
    LET survey_id == combine(username, survey_name) IN
    /\ calls[p] = Idle
    /\ IF survey_id \in DOMAIN cache
       THEN /\ last' = Response("fetch", survey_id, "ok")
            /\ UNCHANGED calls
       ELSE /\ calls' = [calls EXCEPT ![p] =
                    Call("fetch", "find_one", username, survey_name, None)]
            /\ UNCHANGED last
    /\ UNCHANGED <<configurations, collections, cache, now, debug>>
    /\ UNCHANGED <<verified_entries_collection, response>>

\* the store answers the find_one of _fetch
_fetch_find_one(p) ==
    LET found == FindConfiguration(calls[p].username, calls[p].survey_name) IN
    /\ At(p, "fetch", "find_one")
    /\ calls' = [calls EXCEPT ![p].pc = "found",
                              ![p].configuration =
                                    IF found = {} THEN None
                                    ELSE <<CHOOSE c \in found : TRUE>>]
    /\ UNCHANGED <<configurations, collections, cache, now, debug, last>>
    /\ UNCHANGED <<verified_entries_collection, response>>

\* _fetch resumes: 404, or _update_cache and return self.cache[survey_id]
_fetch_resume(p) ==
    LET survey_id == combine(calls[p].username, calls[p].survey_name) IN
    /\ At(p, "fetch", "found")
    /\ IF calls[p].configuration = None
       THEN /\ last' = Response("fetch", survey_id, "NotFound")
            /\ UNCHANGED cache
       ELSE /\ cache' = _update_cache(cache, calls[p].configuration[1])
            /\ last' = Response("fetch", survey_id, "ok")
    /\ calls' = [calls EXCEPT ![p] = Idle]
    /\ UNCHANGED <<configurations, collections, now, debug>>
    /\ UNCHANGED <<verified_entries_collection, response>>

\* SurveyManager._create up to the answer of the store to insert_one
_create_insert_one(p, username, survey_name, configuration) ==
    LET survey_id == combine(username, survey_name)
        document == WithUsername(configuration, username)
    IN
    /\ calls[p] = Idle
    /\ IF NameMismatch(survey_name, configuration) \/ ~ValidateConfiguration(configuration)
       THEN /\ last' = Response("create", survey_id, "InvalidConfiguration")
            /\ UNCHANGED <<configurations, calls>>
       ELSE IF DuplicateKey(configurations, document)
       THEN /\ calls' = [calls EXCEPT ![p] =
                    Call("create", "DuplicateKeyError", username, survey_name, <<document>>)]
            /\ UNCHANGED <<configurations, last>>
       ELSE /\ configurations' = configurations \cup {document}
            /\ calls' = [calls EXCEPT ![p] =
                    Call("create", "inserted", username, survey_name, <<document>>)]
            /\ UNCHANGED last
    /\ UNCHANGED <<collections, cache, now, debug>>
    /\ UNCHANGED <<verified_entries_collection, response>>

\* _create resumes: 'survey exists', or _update_cache
_create_resume(p) ==
    LET survey_id == combine(calls[p].username, calls[p].survey_name) IN
    /\ calls[p].op = "create"
    /\ IF calls[p].pc = "DuplicateKeyError"
       THEN /\ last' = Response("create", survey_id, "AlreadyExists")
            /\ UNCHANGED cache
       ELSE /\ cache' = _update_cache(cache, calls[p].configuration[1])
            /\ last' = Response("create", survey_id, "ok")
    /\ calls' = [calls EXCEPT ![p] = Idle]
    /\ UNCHANGED <<configurations, collections, now, debug>>
    /\ UNCHANGED <<verified_entries_collection, response>>

\* SurveyManager._update up to the answer of the store to replace_one
_update_replace_one(p, username, survey_name, configuration) ==
    LET survey_id == combine(username, survey_name)
        document == WithUsername(configuration, username)
        matched == FindConfiguration(username, survey_name)
    IN
    /\ calls[p] = Idle
    /\ IF ~ValidateConfiguration(configuration)
       THEN /\ last' = Response("update", survey_id, "InvalidConfiguration")
            /\ UNCHANGED <<configurations, calls>>
       ELSE IF matched = {}
       THEN /\ calls' = [calls EXCEPT ![p] =
                    Call("update", "unmatched", username, survey_name, <<document>>)]
            /\ UNCHANGED <<configurations, last>>
       ELSE IF DuplicateKey(configurations \ matched, document)
       THEN /\ calls' = [calls EXCEPT ![p] =
                    Call("update", "DuplicateKeyError", username, survey_name, <<document>>)]
            /\ UNCHANGED <<configurations, last>>
       ELSE /\ configurations' = (configurations \ matched) \cup {document}
            /\ calls' = [calls EXCEPT ![p] =
                    Call("update", "matched", username, survey_name, <<document>>)]
            /\ UNCHANGED last
    /\ UNCHANGED <<collections, cache, now, debug>>
    /\ UNCHANGED <<verified_entries_collection, response>>

\* _update resumes: 'not an existing survey', the asserts, _update_cache
_update_resume(p) ==
    LET survey_id == combine(calls[p].username, calls[p].survey_name) IN
    /\ calls[p].op = "update"
    /\ IF calls[p].pc = "unmatched"
       THEN /\ last' = Response("update", survey_id, "NotFound")
            /\ UNCHANGED cache
       ELSE IF calls[p].pc = "DuplicateKeyError"
       THEN /\ last' = Response("update", survey_id, "DuplicateKeyError")
            /\ UNCHANGED cache
       ELSE IF AssertionFails
       THEN /\ last' = Response("update", survey_id, "AssertionError")
            /\ UNCHANGED cache
       ELSE /\ cache' = _update_cache(cache, calls[p].configuration[1])
            /\ last' = Response("update", survey_id, "ok")
    /\ calls' = [calls EXCEPT ![p] = Idle]
    /\ UNCHANGED <<configurations, collections, now, debug>>
    /\ UNCHANGED <<verified_entries_collection, response>>

\* SurveyManager._delete up to the answer of the store to delete_one
_delete_delete_one(p, username, survey_name) ==
    /\ calls[p] = Idle
    /\ configurations' = configurations \ FindConfiguration(username, survey_name)
    /\ calls' = [calls EXCEPT ![p] =
            Call("delete", "deleted", username, survey_name, None)]
    /\ UNCHANGED <<collections, cache, now, debug, last>>
    /\ UNCHANGED <<verified_entries_collection, response>>

\* _delete resumes: the cache entry is deleted, the next store call awaited
_delete_evict(p) ==
    LET survey_id == combine(calls[p].username, calls[p].survey_name) IN
    /\ At(p, "delete", "deleted")
    /\ cache' = IF survey_id \in DOMAIN cache THEN Evict(cache, survey_id) ELSE cache
    /\ calls' = [calls EXCEPT ![p].pc = "drop_submissions"]
    /\ UNCHANGED <<configurations, collections, now, debug, last>>
    /\ UNCHANGED <<verified_entries_collection, response>>

\* the store drops surveys.{id}.submissions
_delete_drop_submissions(p) ==
    LET survey_id == combine(calls[p].username, calls[p].survey_name) IN
    /\ At(p, "delete", "drop_submissions")
    /\ collections' = Drop(collections, <<survey_id, "submissions">>)
    /\ calls' = [calls EXCEPT ![p].pc = "drop_verified"]
    /\ UNCHANGED <<configurations, cache, now, debug, last>>
    /\ UNCHANGED <<verified_entries_collection, response>>

\* the store drops surveys.{id}.verified-submissions and _delete returns
_delete_drop_verified(p) ==
    LET survey_id == combine(calls[p].username, calls[p].survey_name) IN
    /\ At(p, "delete", "drop_verified")
    /\ collections' = Drop(collections, <<survey_id, "verified-submissions">>)
    /\ last' = Response("delete", survey_id, "ok")
    /\ calls' = [calls EXCEPT ![p] = Idle]
    /\ UNCHANGED <<configurations, cache, now, debug>>
    /\ UNCHANGED <<verified_entries_collection, response>>

\* the manager calls for one key, overlapping, and results requests
NextConcurrent ==
    \/ Tick
    \/ \E p \in Processes, u \in Usernames, n \in LifecycleNames : _fetch_begin(p, u, n)
    \/ \E p \in Processes : _fetch_find_one(p)
    \/ \E p \in Processes : _fetch_resume(p)
    \/ \E p \in Processes, u \in Usernames, n \in LifecycleNames,
          c \in ConcurrentConfigurations : _create_insert_one(p, u, n, c)
    \/ \E p \in Processes : _create_resume(p)
    \/ \E p \in Processes, u \in Usernames, n \in LifecycleNames,
          c \in ConcurrentConfigurations : _update_replace_one(p, u, n, c)
    \/ \E p \in Processes : _update_resume(p)
    \/ \E p \in Processes, u \in Usernames, n \in LifecycleNames : _delete_delete_one(p, u, n)
    \/ \E p \in Processes : _delete_evict(p)
    \/ \E p \in Processes : _delete_drop_submissions(p)
    \/ \E p \in Processes : _delete_drop_verified(p)
    \/ \E u \in Usernames, n \in LifecycleNames : aggregate(u, n)

SpecConcurrent == InitConcurrent /\ [][NextConcurrent]_vars

----------------------------------------------------------------------------
\* Overlapping submits to one survey

\* the payloads the overlapping submits carry
ConcurrentSubmissions ==
    { ("1" :> "a@x.io") @@ ("2" :> "yes"),
      ("1" :> "b@x.io") @@ ("2" :> "yes"),
      <<>> }

\* a coroutine suspended in Survey.submit: the Survey it holds and the
\* record it is inserting
SubmitCall(pc, survey, submission) ==
    [op |-> "submit", pc |-> pc, survey |-> survey, submission |-> submission]

\* the server starts on a database that holds an email survey, at a time
\* inside the survey's window
InitSubmit ==
    /\ configurations =
            {WithUsername(Configuration("vote", <<1>>, <<2>>, "email", <<"email", "text">>),
                          "fastsurvey")}
    /\ collections = [name \in CollectionNames |-> {}]
    /\ cache = <<>>
    /\ now = 1
    /\ debug = TRUE
    /\ last = Response("start", <<>>, "ok")
    /\ calls = [p \in Processes |-> Idle]
    /\ verified_entries_collection = <<>>
    /\ response = None

\* (mutant) the store accepts a second document with the same _id
InsertRefusedNever(documents, id) ==
    FALSE

\* insert_one raises DuplicateKeyError: the collection holds a document
\* with this _id
InsertRefused(documents, id) ==
    FindById(documents, id) # {}

\* the route submit up to the first await of Survey.submit: _fetch, the
\* time gate, the validator, and for an email survey the first vtoken()
submit_begin(p, username, survey_name, submission, token) ==
    LET survey_id == combine(username, survey_name)
        survey == FetchedSurvey(username, survey_name)
        outcome == SubmitOutcome(username, survey_name, submission, 200)
    IN
    /\ calls[p] = Idle
    /\ cache' = IF outcome = "NotFound" THEN cache
                ELSE CacheAfterFetch(username, survey_name)
    /\ IF ~SubmitInserts(username, survey_name, submission)
       THEN /\ last' = Response("submit", survey_id, outcome)
            /\ UNCHANGED calls
       ELSE /\ calls' = [calls EXCEPT ![p] =
                    SubmitCall("insert_one", survey,
                        IF survey.configuration.authentication = "email"
                        THEN PendingRecord(token, submission)
                        ELSE PendingRecord(None, submission))]
            /\ UNCHANGED last
    /\ UNCHANGED <<configurations, collections, now, debug>>
    /\ UNCHANGED <<verified_entries_collection, response>>

\* the store answers insert_one: the record is inserted (under a fresh
\* ObjectId if it has no _id), or DuplicateKeyError is raised
submit_insert_one(p) ==
    LET survey == calls[p].survey
        submission == calls[p].submission
        pending == collections[survey.submissions]
    IN
    /\ At(p, "submit", "insert_one")
    /\ IF survey.configuration.authentication = "open"
       THEN /\ Cardinality(pending) < MaxDocuments
            /\ collections' = [collections EXCEPT ![survey.submissions] =
                    pending \cup {PendingRecord(ObjectId(Cardinality(pending) + 1),
                                                submission.data)}]
            /\ calls' = [calls EXCEPT ![p].pc = "inserted"]
       ELSE IF InsertRefused(pending, submission._id)
       THEN /\ calls' = [calls EXCEPT ![p].pc = "DuplicateKeyError"]
            /\ UNCHANGED collections
       ELSE /\ collections' = [collections EXCEPT ![survey.submissions] =
                    pending \cup {submission}]
            /\ calls' = [calls EXCEPT ![p].pc = "inserted"]
    /\ UNCHANGED <<configurations, cache, now, debug, last>>
    /\ UNCHANGED <<verified_entries_collection, response>>

\* (mutant) the loop has an attempt ceiling: after a refused insert the
\* call gives up with a store failure
submit_retry_gives_up(p, token) ==
    /\ At(p, "submit", "DuplicateKeyError")
    /\ last' = Response("submit",
            combine(calls[p].survey.configuration.username,
                    calls[p].survey.configuration.survey_name), "StoreFailure")
    /\ calls' = [calls EXCEPT ![p] = Idle]
    /\ UNCHANGED <<configurations, collections, cache, now, debug>>
    /\ UNCHANGED <<verified_entries_collection, response>>

\* except DuplicateKeyError: a new vtoken(), and insert_one again
submit_retry(p, token) ==
    /\ At(p, "submit", "DuplicateKeyError")
    /\ calls' = [calls EXCEPT ![p].pc = "insert_one",
                              ![p].submission._id = token]
    /\ UNCHANGED <<configurations, collections, cache, now, debug, last>>
    /\ UNCHANGED <<verified_entries_collection, response>>

\* after the insert: an open survey is done; an email survey awaits the
\* mailer and raises 'email delivery failure' unless it answers 200
submit_deliver(p, status) ==
    LET survey == calls[p].survey
        survey_id == combine(survey.configuration.username,
                             survey.configuration.survey_name)
    IN
    /\ At(p, "submit", "inserted")
    /\ last' = Response("submit", survey_id,
            IF survey.configuration.authentication = "open" THEN "ok"
            ELSE IF survey.ei = None THEN "TypeError"
            ELSE IF status # 200 THEN "DeliveryFailure"
            ELSE "ok")
    /\ calls' = [calls EXCEPT ![p] = Idle]
    /\ UNCHANGED <<configurations, collections, cache, now, debug>>
    /\ UNCHANGED <<verified_entries_collection, response>>

\* the submits that overlap while the survey is open
NextSubmit ==
    \/ \E p \in Processes, u \in Usernames, n \in LifecycleNames,
          s \in ConcurrentSubmissions, t \in Tokens : submit_begin(p, u, n, s, t)
    \/ \E p \in Processes : submit_insert_one(p)
    \/ \E p \in Processes, t \in Tokens : submit_retry(p, t)
    \/ \E p \in Processes, m \in StatusCodes : submit_deliver(p, m)

SpecSubmit == InitSubmit /\ [][NextSubmit]_vars

\* the tokens no pending record of the call's survey carries
FreeTokens(p) ==
    {t \in Tokens : FindById(collections[calls[p].survey.submissions], t) = {}}

\* vtoken() returns a token that no pending record carries
FreshRetry(p) ==
    /\ At(p, "submit", "DuplicateKeyError")
    /\ \E t \in FreeTokens(p) : submit_retry(p, t)

\* the submits that compete for tokens: what they carry does not matter to
\* the loop, so all carry the same valid payload
NextRetry ==
    \/ \E p \in Processes, u \in Usernames, n \in LifecycleNames, t \in Tokens :
            submit_begin(p, u, n, ("1" :> "a@x.io") @@ ("2" :> "yes"), t)
    \/ \E p \in Processes : submit_insert_one(p)
    \/ \E p \in Processes, t \in Tokens : submit_retry(p, t)
    \/ \E p \in Processes, m \in StatusCodes : submit_deliver(p, m)

\* the overlapping submits on an event loop that resumes every coroutine
\* whose await has completed: the store answers each insert_one, the mailer
\* answers each request, and secrets.token_hex does not avoid the free
\* tokens forever
SpecSubmitFair ==
    /\ InitSubmit /\ [][NextRetry]_vars
    /\ \A p \in Processes :
        /\ WF_vars(submit_insert_one(p))
        /\ WF_vars(\E m \in StatusCodes : submit_deliver(p, m))
        /\ SF_vars(FreshRetry(p))

----------------------------------------------------------------------------
\* A delete that overlaps submits and verifies of the same survey

\* a coroutine suspended in Survey.verify: the Survey it holds, its token
\* and, once found, the record it is about to write
VerifyCall(pc, survey, verification_token, submission) ==
    [op |-> "verify", pc |-> pc, survey |-> survey,
     verification_token |-> verification_token, submission |-> submission]

\* the route verify up to the first await of Survey.verify: _fetch, the
\* authentication check and the time gate
verify_begin(p, username, survey_name, verification_token) ==
    LET survey_id == combine(username, survey_name)
        survey == FetchedSurvey(username, survey_name)
    IN
    /\ calls[p] = Idle
    /\ IF FetchFails(username, survey_name)
       THEN /\ last' = Response("verify", survey_id, "NotFound")
            /\ UNCHANGED <<cache, calls>>
       ELSE IF survey.configuration.authentication # "email"
       THEN /\ last' = Response("verify", survey_id, "WrongMode")
            /\ cache' = CacheAfterFetch(username, survey_name)
            /\ UNCHANGED calls
       ELSE IF TimeGate(survey) # "open"
       THEN /\ last' = Response("verify", survey_id, TimeGate(survey))
            /\ cache' = CacheAfterFetch(username, survey_name)
            /\ UNCHANGED calls
       ELSE /\ calls' = [calls EXCEPT ![p] =
                    VerifyCall("find_one", survey, verification_token, None)]
            /\ cache' = CacheAfterFetch(username, survey_name)
            /\ UNCHANGED last
    /\ UNCHANGED <<configurations, collections, now, debug>>
    /\ UNCHANGED <<verified_entries_collection, response>>

\* the store answers find_one on the pending submissions: no record is
\* 'invalid verification token'; a record is re-keyed by its email address
verify_find_one(p) ==
    LET survey == calls[p].survey
        survey_id == combine(survey.configuration.username,
                             survey.configuration.survey_name)
        found == FindById(collections[survey.submissions], calls[p].verification_token)
    IN
    /\ At(p, "verify", "find_one")
    /\ IF found = {}
       THEN /\ last' = Response("verify", survey_id, "InvalidToken")
            /\ calls' = [calls EXCEPT ![p] = Idle]
       ELSE IF survey.ei = None
       THEN /\ last' = Response("verify", survey_id, "TypeError")
            /\ calls' = [calls EXCEPT ![p] = Idle]
       ELSE IF \E d \in found : str(survey.ei[1] + 1) \notin DOMAIN d.data
       THEN /\ last' = Response("verify", survey_id, "KeyError")
            /\ calls' = [calls EXCEPT ![p] = Idle]
       ELSE /\ calls' = [calls EXCEPT ![p].pc = "find_one_and_replace",
                                      ![p].submission =
                            <<VerifiedRecord(survey, CHOOSE d \in found : TRUE)>>]
            /\ UNCHANGED last
    /\ UNCHANGED <<configurations, collections, cache, now, debug>>
    /\ UNCHANGED <<verified_entries_collection, response>>

\* the store answers find_one_and_replace with upsert on the verified
\* submissions, and verify returns its redirect
verify_find_one_and_replace(p) ==
    LET survey == calls[p].survey
        survey_id == combine(survey.configuration.username,
                             survey.configuration.survey_name)
    IN
    /\ At(p, "verify", "find_one_and_replace")
    /\ collections' = [collections EXCEPT ![survey.verified_submissions] =
            Upsert(@, calls[p].submission[1])]
    /\ last' = Response("verify", survey_id, "ok")
    /\ calls' = [calls EXCEPT ![p] = Idle]
    /\ UNCHANGED <<configurations, cache, now, debug>>
    /\ UNCHANGED <<verified_entries_collection, response>>

\* submits and verifies of one survey, and its delete, overlapping
NextDelete ==
    \/ \E p \in Processes, u \in Usernames, n \in LifecycleNames, t \in Tokens :
            submit_begin(p, u, n, ("1" :> "a@x.io") @@ ("2" :> "yes"), t)
    \/ \E p \in Processes : submit_insert_one(p)
    \/ \E p \in Processes, t \in Tokens : submit_retry(p, t)
    \/ \E p \in Processes, m \in StatusCodes : submit_deliver(p, m)
    \/ \E p \in Processes, u \in Usernames, n \in LifecycleNames, t \in Tokens :
            verify_begin(p, u, n, t)
    \/ \E p \in Processes : verify_find_one(p)
    \/ \E p \in Processes : verify_find_one_and_replace(p)
    \/ \E p \in Processes, u \in Usernames, n \in LifecycleNames :
            _delete_delete_one(p, u, n)
    \/ \E p \in Processes : _delete_evict(p)
    \/ \E p \in Processes : _delete_drop_submissions(p)
    \/ \E p \in Processes : _delete_drop_verified(p)

SpecDelete == InitSubmit /\ [][NextDelete]_vars

----------------------------------------------------------------------------
\* The results of survey 2 (flask_backend)

\* the electees, "referat.name" split at the dot
Electees ==
    << <<"erstsemester", "koenigbaur">>, <<"erstsemester", "wernsdorfer">>,
       <<"erstsemester", "andere">>,
       <<"veranstaltungen", "ritter">>, <<"veranstaltungen", "pro">>,
       <<"veranstaltungen", "andere">>,
       <<"skripte", "lukasch">>, <<"skripte", "limant">>, <<"skripte", "andere">>,
       <<"quantum", "albrecht">>, <<"quantum", "roithmaier">>, <<"quantum", "andere">>,
       <<"kooperationen", "winckler">>, <<"kooperationen", "andere">>,
       <<"it", "kalk">>, <<"it", "sittig">>, <<"it", "andere">>,
       <<"evaluationen", "reichelt">>, <<"evaluationen", "andere">>,
       <<"hochschulpolitik", "armbruster">>, <<"hochschulpolitik", "paulus">>,
       <<"hochschulpolitik", "andere">>,
       <<"finanzen", "spicker">>, <<"finanzen", "schuh">>, <<"finanzen", "andere">>,
       <<"pr", "werle">>, <<"pr", "andere">> >>

ElecteeSet == {Electees[i] : i \in DOMAIN Electees}

\* a verified record: election[<<referat, name>>] is the vote for a named
\* electee, election[<<referat, "andere">>] the list of free-text names
VerifiedEntry(survey, koenigbaur, andere_list) ==
    [survey |-> survey,
     election |-> [e \in ElecteeSet |->
        IF e = <<"erstsemester", "koenigbaur">> THEN koenigbaur
        ELSE IF e = <<"erstsemester", "andere">> THEN andere_list
        ELSE IF e[2] = "andere" THEN <<>>
        ELSE FALSE]]

\* the verified records the collection can hold
VerifiedEntryInputs ==
    {VerifiedEntry("fvv-ss20-referate", k, l) :
        k \in BOOLEAN, l \in {<<>>, <<"x">>, <<"x", "x">>, <<"x", "y">>}}
    \cup {VerifiedEntry("fvv-ss20", TRUE, <<"x">>)}

\* the collections of at most MaxRecords records
VerifiedEntryLists ==
    UNION {[1..k -> VerifiedEntryInputs] : k \in 0..MaxRecords}

\* the truth value Python gives a vote
Truthy(value) ==
    value = TRUE

\* the zero-initialised results (first loop of fetch)
ZeroResults ==
    [e \in ElecteeSet |-> IF e[2] = "andere" THEN <<>> ELSE 0]

\* the loop over andere_list: every entry of the list counts
RECURSIVE CountAndere(_, _, _)
CountAndere(buckets, andere_list, i) ==
    IF i > Len(andere_list) THEN buckets
    ELSE LET andere == andere_list[i]
             started == IF andere \notin DOMAIN buckets
                        THEN buckets @@ (andere :> 0) ELSE buckets
         IN  CountAndere([started EXCEPT ![andere] = @ + 1], andere_list, i + 1)

\* (mutant) every vote counts, truthy or not
AddRecordCountsAll(results, record) ==
    [e \in DOMAIN results |->
        IF e[2] = "andere"
        THEN CountAndere(results[e], record.election[e], 1)
        ELSE results[e] + 1]

\* the body of the loop over verified_records: one record added to results
AddRecord(results, record) ==
    [e \in DOMAIN results |->
        IF e[2] = "andere"
        THEN CountAndere(results[e], record.election[e], 1)
        ELSE results[e] + (IF Truthy(record.election[e]) THEN 1 ELSE 0)]

\* the loop over verified_records
RECURSIVE AddRecords(_, _, _)
AddRecords(results, verified_records, i) ==
    IF i > Len(verified_records) THEN results
    ELSE AddRecords(AddRecord(results, verified_records[i]), verified_records, i + 1)

\* verified_entries_collection.find({"survey": "fvv-ss20-referate"})
FindVerified(documents) ==
    SelectSeq(documents, LAMBDA d : d.survey = "fvv-ss20-referate")

\* the state at start of the results service: some verified records
InitResults ==
    /\ configurations = {}
    /\ collections = [name \in CollectionNames |-> {}]
    /\ cache = <<>>
    /\ now = 0
    /\ debug = TRUE
    /\ last = Response("start", <<>>, "ok")
    /\ calls = [p \in Processes |-> Idle]
    /\ verified_entries_collection \in VerifiedEntryLists
    /\ response = None

\* survey_2_results.fetch
survey_2_results_fetch ==
    /\ response' = <<[status |-> "ok",
                      results |-> AddRecords(ZeroResults,
                                    FindVerified(verified_entries_collection), 1)]>>
    /\ UNCHANGED <<configurations, collections, cache, now, debug, last, calls,
                   verified_entries_collection>>

NextResults ==
    survey_2_results_fetch

SpecResults == InitResults /\ [][NextResults]_vars

----------------------------------------------------------------------------
\* Claims

\* the configuration of the Survey a fetch(username, survey_name) returns,
\* <<>> when it raises 404
FetchedConfiguration(username, survey_name) ==
    IF FetchFails(username, survey_name) THEN <<>>
    ELSE <<FetchedSurvey(username, survey_name).configuration>>

\* C1: verification tokens are single-use: once verify(t) has succeeded on
\* an email survey inside its window, a further verify(t) on that survey
\* fails InvalidToken (the pending record was consumed).
C1_TokenSingleUse ==
    [][\A u \in Usernames, n \in SurveyNames, t \in Tokens :
        (last' = Response("verify", combine(u, n), "ok") /\ verify(u, n, t))
            => (VerifyOutcome(u, n, t) = "InvalidToken")']_vars

\* C2: after update(owner, name, newConfig) with a valid newConfig on a key
\* that has a stored configuration, cached or not, the next
\* fetch(owner, name) returns a Survey built from newConfig.
C2_FetchAfterUpdate ==
    [][\A u \in Usernames, n \in SurveyNames, c \in ConfigurationInputs :
        (/\ last'.op = "update" /\ last'.id = combine(u, n)
         /\ ValidateConfiguration(c)
         /\ FindConfiguration(u, n) # {}
         /\ _update(u, n, c))
            => (FetchedConfiguration(u, n) = <<WithUsername(c, u)>>)']_vars

\* the value a payload gives for the email field of a configuration
EmailValue(configuration, data) ==
    data[str(CHOOSE i \in DOMAIN configuration.fields : configuration.fields[i] = "email")]

VerifiedCollections ==
    {name \in CollectionNames : name[2] = "submissions.verified"}

\* C3: last-verified-wins: a successful verify leaves exactly one verified
\* record for the email value of the verified submission, keyed by that
\* value and holding that submission's payload, and leaves the records of
\* the other email values as they were; nothing but a successful verify
\* changes the verified store, which never holds two records for one key.
C3_LastVerifiedWins ==
    [][/\ \A u \in Usernames, n \in SurveyNames, t \in Tokens :
            (last' = Response("verify", combine(u, n), "ok") /\ verify(u, n, t)) =>
                LET survey == FetchedSurvey(u, n)
                    d == CHOOSE x \in FindById(collections[survey.submissions], t) : TRUE
                    email == EmailValue(survey.configuration, d.data)
                    before == collections[survey.verified_submissions]
                    after == collections'[survey.verified_submissions]
                IN  /\ \E r \in after :
                        /\ {x \in after : x._id = email} = {r}
                        /\ r.data = d.data
                    /\ {x \in after : x._id # email} = {x \in before : x._id # email}
       /\ \A name \in VerifiedCollections :
            /\ collections'[name] # collections[name]
                    => last' = Response("verify", name[1], "ok")
            /\ \A r1, r2 \in collections'[name] : r1._id = r2._id => r1 = r2]_vars

\* a verify has just replaced the verified record of an email address of
\* which two submissions with different payloads are pending
C3_Witness ==
    /\ last.op = "verify" /\ last.outcome = "ok"
    /\ \E d1, d2 \in collections[<<last.id, "submissions">>] :
        /\ d1.data # d2.data
        /\ d1.data["1"] = d2.data["1"]
        /\ \E r \in collections[<<last.id, "submissions.verified">>] :
            r._id = d1.data["1"] /\ r.data = d2.data
    /\ Cardinality(collections[<<last.id, "submissions.verified">>]) = 1

\* C4: for a survey with start <= end, submit fails NotOpenYet iff
\* now < start and Closed iff now >= end, whatever the payload, and
\* aggregate fails NotYetClosed iff now < end.
C4_TimeGating ==
    [][\A u \in Usernames, n \in SurveyNames :
        LET c == FetchedSurvey(u, n).configuration IN
        (/\ last'.id = combine(u, n)
         /\ last'.op \in {"submit", "aggregate"}
         /\ ~FetchFails(u, n)
         /\ c.start # None /\ c.end # None
         /\ c.start[1] <= c.end[1]) =>
            /\ last'.op = "submit" =>
                    /\ last'.outcome = "NotOpenYet" <=> now < c.start[1]
                    /\ last'.outcome = "Closed" <=> now >= c.end[1]
            /\ last'.op = "aggregate" =>
                    (last'.outcome = "NotYetClosed" <=> now < c.end[1])]_vars

\* a submit at exactly the end of the survey was refused as closed
C4_Witness ==
    /\ last.op = "submit" /\ last.outcome = "Closed"
    /\ last.id \in DOMAIN cache
    /\ cache[last.id].configuration.end = <<now>>

\* C5: a null start or end leaves the window unbounded on that side: submit
\* and verify on such a survey never fail NotOpenYet (start null) or Closed
\* (end null), and the time comparison raises no other error.
C5_NullUnbounded ==
    [][\A u \in Usernames, n \in SurveyNames, t \in Tokens :
        LET c == FetchedSurvey(u, n).configuration IN
        (/\ last'.id = combine(u, n)
         /\ last'.op \in {"submit", "verify"}
         /\ ~FetchFails(u, n)
         /\ \/ verify(u, n, t)
            \/ \E s \in SubmissionInputs, m \in StatusCodes : submit(u, n, s, t, m)) =>
            /\ c.start = None => last'.outcome # "NotOpenYet"
            /\ c.end = None => last'.outcome # "Closed"
            /\ (c.start = None \/ c.end = None) => last'.outcome # "TypeError"]_vars

\* C6: verify fails WrongMode on a survey that is not in email mode, then
\* NotOpenYet before start, then Closed at or after end, whatever the token;
\* it fails InvalidToken exactly for an unknown token inside the window; a
\* failing verify leaves the pending and verified stores unchanged.
C6_VerifyOrder ==
    [][\A u \in Usernames, n \in SurveyNames, t \in Tokens :
        (/\ last'.op = "verify" /\ last'.id = combine(u, n)
         /\ ~FetchFails(u, n)
         /\ verify(u, n, t)) =>
            LET survey == FetchedSurvey(u, n)
                c == survey.configuration
                timed == c.start # None /\ c.end # None
            IN  /\ c.authentication # "email" => last'.outcome = "WrongMode"
                /\ (c.authentication = "email" /\ c.start # None /\ now < c.start[1])
                        => last'.outcome = "NotOpenYet"
                /\ (c.authentication = "email" /\ timed /\ now >= c.end[1])
                        => last'.outcome = "Closed"
                /\ last'.outcome = "InvalidToken" <=>
                        /\ c.authentication = "email"
                        /\ timed
                        /\ c.start[1] <= now /\ now < c.end[1]
                        /\ FindById(collections[survey.submissions], t) = {}
                /\ last'.outcome \in {"WrongMode", "NotOpenYet", "Closed", "InvalidToken"}
                        => UNCHANGED collections]_vars

\* a verify was refused as closed while every token was that of a pending
\* submission
C6_Witness ==
    /\ last.op = "verify" /\ last.outcome = "Closed"
    /\ \A t \in Tokens : FindById(collections[<<last.id, "submissions">>], t) # {}

\* C7: an email-mode submit whose mail is not delivered fails
\* DeliveryFailure and leaves its pending record, under its token, in the
\* pending store, so that verify with that token then succeeds.
C7_MailerFailureKeepsPending ==
    [][\A u \in Usernames, n \in SurveyNames :
        (/\ last'.op = "submit" /\ last'.id = combine(u, n)
         /\ last'.outcome \in {"ok", "DeliveryFailure"}) =>
            LET survey == FetchedSurvey(u, n)
                inserted == collections'[survey.submissions] \ collections[survey.submissions]
            IN  /\ \A s \in SubmissionInputs, t \in Tokens, m \in StatusCodes :
                    (/\ survey.configuration.authentication = "email"
                     /\ m # 200
                     /\ submit(u, n, s, t, m)) => last'.outcome = "DeliveryFailure"
                /\ last'.outcome = "DeliveryFailure" =>
                    \E d \in inserted :
                        /\ inserted = {d}
                        /\ d._id \in Tokens
                        /\ (VerifyOutcome(u, n, d._id) = "ok")']_vars

\* a submit has just failed with DeliveryFailure and its record is pending
C7_Witness ==
    /\ last.op = "submit" /\ last.outcome = "DeliveryFailure"
    /\ collections[<<last.id, "submissions">>] # {}

\* C8 as stated: create on a key that has a stored configuration fails
\* AlreadyExists with store and cache unchanged, whatever the configuration;
\* on success the cache holds a Survey built from the new configuration.
C8_CreateExisting ==
    [][\A u \in Usernames, n \in SurveyNames, c \in ConfigurationInputs :
        (last'.op = "create" /\ last'.id = combine(u, n) /\ _create(u, n, c)) =>
            /\ FindConfiguration(u, n) # {} =>
                /\ last'.outcome = "AlreadyExists"
                /\ UNCHANGED <<configurations, cache>>
            /\ last'.outcome = "ok" =>
                /\ combine(u, n) \in DOMAIN cache'
                /\ cache'[combine(u, n)] = Survey(WithUsername(c, u))]_vars

\* C8 amended: create on a key that has a stored configuration leaves store
\* and cache unchanged and fails AlreadyExists when the configuration passes
\* the name check and the validator, InvalidConfiguration when it does not;
\* on success the cache holds a Survey built from the new configuration.
C8_CreateExistingValid ==
    [][\A u \in Usernames, n \in SurveyNames, c \in ConfigurationInputs :
        (last'.op = "create" /\ last'.id = combine(u, n) /\ _create(u, n, c)) =>
            /\ FindConfiguration(u, n) # {} =>
                /\ last'.outcome =
                        IF n = c.survey_name /\ ValidateConfiguration(c)
                        THEN "AlreadyExists" ELSE "InvalidConfiguration"
                /\ UNCHANGED <<configurations, cache>>
            /\ last'.outcome = "ok" =>
                /\ combine(u, n) \in DOMAIN cache'
                /\ cache'[combine(u, n)] = Survey(WithUsername(c, u))]_vars

\* a create was refused as AlreadyExists for a key the cache has no entry
\* for, while the cache holds another entry
C8_Witness ==
    /\ last.op = "create" /\ last.outcome = "AlreadyExists"
    /\ last.id \notin DOMAIN cache
    /\ DOMAIN cache # {}

\* C9: a create whose configuration fails the name check or the validator,
\* and an update whose configuration fails the validator, fail
\* InvalidConfiguration and leave store and cache as they were; no stored
\* or cached configuration is one the validator rejects.
C9_InvalidNeverWritten ==
    [][/\ \A u \in Usernames, n \in SurveyNames, c \in ConfigurationInputs :
            (/\ last'.op \in {"create", "update"} /\ last'.id = combine(u, n)
             /\ \/ (n # c.survey_name \/ ~ValidateConfiguration(c)) /\ _create(u, n, c)
                \/ ~ValidateConfiguration(c) /\ _update(u, n, c)) =>
                /\ last'.outcome = "InvalidConfiguration"
                /\ UNCHANGED <<configurations, cache>>
       /\ \A c \in configurations' : ValidateConfiguration(c)
       /\ \A id \in DOMAIN cache' : ValidateConfiguration(cache'[id].configuration)]_vars

\* a create or update was refused as InvalidConfiguration while a survey is
\* stored and cached
C9_Witness ==
    /\ last.op \in {"create", "update"} /\ last.outcome = "InvalidConfiguration"
    /\ configurations # {}
    /\ DOMAIN cache # {}

\* C10: every update call ends either with success and both the stored
\* document and the cache entry of the key holding the new configuration,
\* or with InvalidConfiguration or NotFound and store and cache unchanged.
C10_UpdateAtomic ==
    [][\A u \in Usernames, n \in SurveyNames, c \in ConfigurationInputs :
        (last'.op = "update" /\ last'.id = combine(u, n) /\ _update(u, n, c)) =>
            \/ /\ last'.outcome = "ok"
               /\ FindConfiguration(u, n)' = {WithUsername(c, u)}
               /\ combine(u, n) \in DOMAIN cache'
               /\ cache'[combine(u, n)].configuration = WithUsername(c, u)
            \/ /\ last'.outcome \in {"InvalidConfiguration", "NotFound"}
               /\ UNCHANGED <<configurations, cache>>]_vars

\* the pending and the verified store of the Survey of a key: the
\* collections Survey.__init__ binds to submissions and verified_submissions
PendingStore(survey_id) ==
    <<survey_id, "submissions">>

VerifiedStore(survey_id) ==
    <<survey_id, "submissions.verified">>

\* C11: after reset(owner, name) the pending store and the verified store of
\* the Survey of that key are both empty, and the stored configuration and
\* the cache entry of the key are as they were.
C11_ResetClears ==
    [][\A u \in Usernames, n \in SurveyNames :
        (last' = Response("reset", combine(u, n), "ok") /\ _reset(u, n)) =>
            /\ collections'[PendingStore(combine(u, n))] = {}
            /\ collections'[VerifiedStore(combine(u, n))] = {}
            /\ UNCHANGED <<configurations, cache>>]_vars

\* the memo Survey.aggregate finds on the Survey that fetch(username,
\* survey_name) returns: None makes it invoke the aggregator
Memo(username, survey_name) ==
    IF FetchFails(username, survey_name) THEN None
    ELSE FetchedSurvey(username, survey_name).results

\* C12: a reset of a key whose cached Survey holds a memoized result R
\* clears the memo: the next aggregate() on the Survey fetch returns finds
\* none, invokes the aggregator again and does not return R.
C12_ResetInvalidatesMemo ==
    [][\A u \in Usernames, n \in SurveyNames :
        (/\ last' = Response("reset", combine(u, n), "ok")
         /\ Memo(u, n) # None
         /\ _reset(u, n)) => (Memo(u, n) = None)']_vars

\* C13: the memoized result of a key survives everything but reset and
\* delete: once the Survey of a key holds a result, every step that is not a
\* reset or delete of that key leaves the Survey that fetch returns holding
\* the same result, so that aggregate() returns it without invoking the
\* aggregator again.
C13_MemoSurvives ==
    [][\A u \in Usernames, n \in SurveyNames :
        (/\ Memo(u, n) # None
         /\ ~(last'.op \in {"reset", "delete"} /\ last'.id = combine(u, n)))
            => (Memo(u, n))' = Memo(u, n)]_vars

\* C14: after delete(owner, name) the store holds no configuration and the
\* cache no entry for the key, the pending and the verified store of that
\* survey are empty and a following fetch fails NotFound; a delete for a
\* key with nothing stored or cached raises no error and changes nothing.
C14_DeleteCascades ==
    [][\A u \in Usernames, n \in SurveyNames :
        (last'.op = "delete" /\ last'.id = combine(u, n) /\ _delete(u, n)) =>
            /\ last'.outcome = "ok"
            /\ FindConfiguration(u, n)' = {}
            /\ combine(u, n) \notin DOMAIN cache'
            /\ collections'[PendingStore(combine(u, n))] = {}
            /\ collections'[VerifiedStore(combine(u, n))] = {}
            /\ FetchFails(u, n)'
            /\ FetchFails(u, n) => UNCHANGED <<configurations, collections, cache>>]_vars

\* a payload is exact for a configuration: no key but the position strings
\* "1".."n", none of them missing, every value within its field's constraint
ExactPayload(configuration, submission) ==
    LET n == Len(configuration.fields) IN
    /\ \A k \in DOMAIN submission : \E i \in 1..n : k = str(i)
    /\ \A i \in 1..n : str(i) \in DOMAIN submission
    /\ \A i \in 1..n : str(i) \in DOMAIN submission
            => ValidValue(configuration.fields[i], submission[str(i)])

SurveyEntries ==
    {i \in DOMAIN verified_entries_collection :
        verified_entries_collection[i].survey = "fvv-ss20-referate"}

\* those that vote for a named electee
Voters(e) ==
    {i \in SurveyEntries : verified_entries_collection[i].election[e] = TRUE}

\* those whose free-text list for a referat contains a value
Listing(e, v) ==
    {i \in SurveyEntries :
        \E j \in DOMAIN verified_entries_collection[i].election[e] :
            verified_entries_collection[i].election[e][j] = v}

\* C16: the results are structurally complete and returned without error;
\* without verified records every named count is 0 and every free-text map
\* empty; otherwise every named count is the number of verified records
\* voting for that electee.
C16_ZeroCase ==
    response # None =>
        LET results == response[1].results IN
        /\ response[1].status = "ok"
        /\ DOMAIN results = ElecteeSet
        /\ \A e \in ElecteeSet :
            IF e[2] = "andere"
            THEN SurveyEntries = {} => DOMAIN results[e] = {}
            ELSE /\ results[e] = Cardinality(Voters(e))
                 /\ SurveyEntries = {} => results[e] = 0

\* the results of a collection without verified records were returned
C16_Witness ==
    /\ response # None
    /\ verified_entries_collection = <<>>
    /\ response[1].results[<<"erstsemester", "koenigbaur">>] = 0

\* C17: every free-text bucket counts the verified records that list its
\* value for the referat, each record once however often it lists it.
C17_OtherOncePerRecord ==
    response # None =>
        \A e \in ElecteeSet : e[2] = "andere" =>
            \A v \in {"x", "y"} :
                IF Listing(e, v) = {}
                THEN v \notin DOMAIN response[1].results[e]
                ELSE /\ v \in DOMAIN response[1].results[e]
                     /\ response[1].results[e][v] = Cardinality(Listing(e, v))

\* C18: whenever no manager call is in progress, the cache holds for a key
\* either nothing or a Survey of the configuration stored for that key.
C18_CacheFollowsStore ==
    (\A p \in Processes : calls[p] = Idle) =>
        \A u \in Usernames, n \in SurveyNames :
            combine(u, n) \in DOMAIN cache =>
                FindConfiguration(u, n) = {cache[combine(u, n)].configuration}

\* C19: two overlapping fetches of a key return the identical Survey: when
\* a fetch comes back from the store with the configuration of the Survey
\* that the call before it (a fetch, or the fetch of a results request) has
\* just returned from the cache, and no other call is in progress, it
\* returns that Survey and leaves the cache entry, memo included, as it is.
C19_OneLiveSurvey ==
    [][\A p \in Processes :
        LET survey_id == combine(calls[p].username, calls[p].survey_name) IN
        (/\ At(p, "fetch", "found")
         /\ survey_id \in DOMAIN cache
         /\ calls[p].configuration = <<cache[survey_id].configuration>>
         /\ last.op \in {"fetch", "aggregate"}
         /\ last.id = survey_id /\ last.outcome = "ok"
         /\ \A q \in Processes \ {p} : calls[q] = Idle
         /\ _fetch_resume(p))
            => UNCHANGED cache]_vars

\* no two pending records of a survey have the same _id
TokensUnique ==
    \A id \in SurveyIds :
        \A d1, d2 \in collections[PendingStore(id)] : d1._id = d2._id => d1 = d2

\* C20: under overlapping submits no two pending records share a token; an
\* insert the store accepts adds exactly the call's record, one the store
\* refuses adds nothing and leaves the call in progress for another token;
\* a call that has inserted ends ok or DeliveryFailure with its record
\* pending, and no submit ends with the collision.
C20_TokensUnique ==
    [][/\ TokensUnique'
       /\ \A p \in Processes :
            (At(p, "submit", "insert_one") /\ submit_insert_one(p)) =>
                LET pending == collections[calls[p].survey.submissions]
                    after == collections'[calls[p].survey.submissions]
                IN  IF FindById(pending, calls[p].submission._id) = {}
                    THEN /\ calls'[p].pc = "inserted"
                         /\ after = pending \cup {calls[p].submission}
                         /\ Cardinality(after) = Cardinality(pending) + 1
                    ELSE /\ calls'[p].pc = "DuplicateKeyError"
                         /\ after = pending
       /\ \A p \in Processes :
            At(p, "submit", "DuplicateKeyError") => calls'[p].op = "submit"
       /\ \A p \in Processes :
            (At(p, "submit", "inserted") /\ calls'[p] = Idle) =>
                /\ last'.outcome \in {"ok", "DeliveryFailure"}
                /\ calls[p].submission \in collections'[calls[p].survey.submissions]
       /\ last'.op = "submit" =>
            last'.outcome \in {"ok", "DeliveryFailure", "NotFound", "NotOpenYet",
                               "Closed", "InvalidSubmission"}]_vars

\* two submits overlap on one token: one has inserted its record and awaits
\* the mailer, the other was refused with the same token
C20_Witness ==
    \E p, q \in Processes :
        /\ At(p, "submit", "inserted")
        /\ At(q, "submit", "DuplicateKeyError")
        /\ calls[p].submission._id = calls[q].submission._id
        /\ calls[p].submission.data # calls[q].submission.data

\* the call is inside the while True loop of Survey.submit
InRetryLoop(p) ==
    At(p, "submit", "insert_one") \/ At(p, "submit", "DuplicateKeyError")

\* C21: an email submit that reached the insert loop eventually has its
\* record inserted and goes on to the mailer, unless every token is taken by
\* then; while every token is taken the call stays in the loop, and no
\* submit ever ends with a store failure, because the loop has no ceiling.
C21_RetryTerminates ==
    /\ \A p \in Processes :
            InRetryLoop(p) ~>
                (At(p, "submit", "inserted") \/ (InRetryLoop(p) /\ FreeTokens(p) = {}))
    /\ [][/\ \A p \in Processes :
               (InRetryLoop(p) /\ FreeTokens(p) = {}) =>
                   /\ InRetryLoop(p)'
                   /\ UNCHANGED collections
          /\ \A p \in Processes :
               At(p, "submit", "DuplicateKeyError") => InRetryLoop(p)'
          /\ last'.outcome # "StoreFailure"]_vars

\* a submit was refused and waits for its next token while a token is
\* still free
C21_Witness ==
    \E p \in Processes :
        /\ At(p, "submit", "DuplicateKeyError")
        /\ FreeTokens(p) # {}
        /\ collections[calls[p].survey.submissions] # {}

\* the failures of a submit that the route reports before any store call
Rejections == {"NotOpenYet", "Closed", "InvalidSubmission", "NotImplemented"}

\* C22: a submit that ends NotOpenYet, Closed or InvalidSubmission, whatever
\* the authentication, or NotImplemented (a valid submission inside the
\* window of an invitation survey), changes neither the pending nor the
\* verified store nor any other collection, and never gets to the mailer.
C22_RejectedNoTrace ==
    [][\A u \in Usernames, n \in SurveyNames :
        (/\ last'.op = "submit" /\ last'.id = combine(u, n)
         /\ last'.outcome \in Rejections) =>
            /\ UNCHANGED <<collections, configurations>>
            /\ \A s \in SubmissionInputs :
                LET survey == FetchedSurvey(u, n)
                    outcome == SubmitOutcome(u, n, s, 200)
                IN
                /\ outcome \in Rejections =>
                        ~SubmitInserts(u, n, s) /\ ~SubmitMails(u, n, s)
                /\ outcome = "NotImplemented" <=>
                        /\ ~FetchFails(u, n)
                        /\ survey.configuration.authentication = "invitation"
                        /\ TimeGate(survey) = "open"
                        /\ ValidateSubmission(survey.configuration, s)]_vars

\* a valid submission inside the window of an invitation survey was
\* answered NotImplemented
C22_Witness ==
    /\ last.op = "submit" /\ last.outcome = "NotImplemented"
    /\ last.id \in DOMAIN cache
    /\ cache[last.id].configuration.authentication = "invitation"
    /\ TimeGate(cache[last.id]) = "open"

\* C23: on a survey of authentication open, a submit that succeeds adds
\* exactly one record to the pending store, made of the submission time and
\* the payload under a store-assigned _id that is no token, and changes no
\* other collection; no submit gets to the mailer or writes the verified
\* store; every verify ends WrongMode and changes no collection; so a
\* verified store that is empty stays empty under submit and verify.
C23_OpenIntake ==
    [][\A u \in Usernames, n \in SurveyNames :
        LET survey == FetchedSurvey(u, n)
            pending == collections[PendingStore(combine(u, n))]
            after == collections'[PendingStore(combine(u, n))]
        IN
        (/\ last'.op \in {"submit", "verify"} /\ last'.id = combine(u, n)
         /\ ~FetchFails(u, n)
         /\ survey.configuration.authentication = "open") =>
            /\ \A s \in SubmissionInputs :
                (last'.op = "submit" /\ SubmitRequest(u, n, s)) =>
                    /\ ~SubmitMails(u, n, s)
                    /\ collections'[VerifiedStore(combine(u, n))]
                            = collections[VerifiedStore(combine(u, n))]
                    /\ IF last'.outcome = "ok"
                       THEN /\ Cardinality(after) = Cardinality(pending) + 1
                            /\ \E d \in after :
                                /\ after = pending \cup {d}
                                /\ d.data = s
                                /\ d.submission_time = now
                                /\ d._id \notin Tokens
                                /\ DOMAIN d = {"_id", "submission_time", "data"}
                            /\ \A name \in CollectionNames \ {PendingStore(combine(u, n))} :
                                collections'[name] = collections[name]
                       ELSE UNCHANGED collections
            /\ \A t \in Tokens :
                (last'.op = "verify" /\ verify(u, n, t)) =>
                    /\ last'.outcome = "WrongMode"
                    /\ UNCHANGED collections
            /\ collections[VerifiedStore(combine(u, n))] = {}
                    => collections'[VerifiedStore(combine(u, n))] = {}]_vars

\* a survey of authentication open took a second submission: two records
\* are pending, none is verified
C23_Witness ==
    /\ last.op = "submit" /\ last.outcome = "ok"
    /\ last.id \in DOMAIN cache
    /\ cache[last.id].configuration.authentication = "open"
    /\ Cardinality(collections[PendingStore(last.id)]) = 2
    /\ collections[VerifiedStore(last.id)] = {}

\* aggregate has succeeded on the cached Survey object: it holds its memo
Aggregated(survey_id) ==
    /\ survey_id \in DOMAIN cache
    /\ cache[survey_id].results # None

\* C24: the clock never goes back; a Survey object on which aggregate has
\* succeeded is past its end from then on; a submit or verify through that
\* object does not succeed and changes no collection, and the memo the
\* object holds is unchanged; at no clock value is a Survey both open for
\* submit and closed for aggregate.
C24_ClosingIsFinal ==
    [][/\ now' >= now
       /\ \A id \in DOMAIN cache' :
            cache'[id].results # None =>
                /\ cache'[id].configuration.end # None
                /\ now' >= cache'[id].configuration.end[1]
                /\ (TimeGate(cache[id]))' # "open"
       /\ \A id \in DOMAIN cache :
            ~(/\ TimeGate(cache[id]) = "open"
              /\ now >= cache[id].configuration.end[1])
       /\ \A u \in Usernames, n \in SurveyNames :
            (/\ last'.op \in {"submit", "verify"} /\ last'.id = combine(u, n)
             /\ Aggregated(combine(u, n))
             /\ \/ \E s \in SubmissionInputs : SubmitRequest(u, n, s)
                \/ \E t \in Tokens : verify(u, n, t)) =>
                /\ last'.outcome \in {"Closed", "TypeError", "WrongMode"}
                /\ UNCHANGED collections
                /\ cache'[combine(u, n)] = cache[combine(u, n)]]_vars

\* a submit or a verify came after a successful aggregate on the same
\* Survey object and was answered Closed
C24_Witness ==
    /\ last.op \in {"submit", "verify"} /\ last.outcome = "Closed"
    /\ Aggregated(last.id)

\* C25: once a delete of a survey and every call that overlapped it have
\* finished, the survey's pending store and its verified store hold no
\* record.
C25_NothingOutlivesDelete ==
    \A u \in Usernames, n \in SurveyNames :
        (/\ \A p \in Processes : calls[p] = Idle
         /\ last = Response("delete", combine(u, n), "ok")
         /\ FindConfiguration(u, n) = {}) =>
            /\ collections[PendingStore(combine(u, n))] = {}
            /\ collections[VerifiedStore(combine(u, n))] = {}

====
